---- MODULE Spec2Model ----
(***************************************************************************)
(* Parallel image generation pipeline of the narrativ python backend:      *)
(* services/image.py, generate_story_from_plan_parallel and the worker     *)
(* _generate_single_slide_worker it submits to a ThreadPoolExecutor.       *)
(*                                                                         *)
(* A batch is one call of generate_story_from_plan_parallel.  The main     *)
(* thread submits one task per slide, collects the futures as they         *)
(* complete, joins the pool and then walks the slides in plan order to     *)
(* post-process and save.  Each task is a position 1..Len(slides) of the   *)
(* plan; slides[i] is the slide_number the plan gives to that position.    *)
(*                                                                         *)
(* Spec and FairSpec are the batch.  SpecCompose is the prompt composer    *)
(* on its own: generate_story_image up to the provider dispatch, applied   *)
(* to any aesthetic and any consistency data.  SpecPlain is the batch in   *)
(* which no exception leaves generate_story_image, SpecFaulty the batch    *)
(* in which a worker itself can raise.  SpecEndpoint is the handler of     *)
(* POST /generate_from_plan, SpecClients the client handles of             *)
(* services/clients.py as services/image.py and services/llm.py see them,  *)
(* SpecBackoff the backoff delays of a worker and SpecNaming the naming    *)
(* of the files of a batch.                                                *)
(***************************************************************************)
EXTENDS Integers, Sequences, FiniteSets, TLC

\* ---------------------------------------------------------------- bounds
MaxSlides == 2
MaxWorkers == 2
MaxBatches == 2
MaxReloads == 2
JitterSteps == 4
MaxClock == 2

\* ------------------------------------------------------ program constants
MAX_PARALLEL_WORKERS == 3
RETRY_MAX_ATTEMPTS == 3
RETRY_BASE_DELAY == 2
SeedLo == 1
SeedHi == 2147483647
TEXT_OVERLAY_ENABLED == FALSE

\* the values random.randint(1, 2147483647) is sampled at
SeedSamples == {SeedLo, SeedHi}

Providers == {"gemini-flash", "gemini-pro", "fal"}

\* plans that keep the data model's numbering (1..N in position order)
ValidPlans == { [i \in 1..n |-> i] : n \in 1..MaxSlides }
\* plans that break it: empty, swapped, gap, duplicate
InvalidPlans == { <<>>, <<2, 1>>, <<1, 3>>, <<1, 1>> }
Plans == ValidPlans \cup InvalidPlans

IsValidPlan(p) == Len(p) >= 1 /\ \A i \in 1..Len(p) : p[i] = i

\* what one invocation of generate_story_image can end in
\*   Ok, Empty, RateLimited, Rejected, Transport: the provider was contacted
\*   NoClient: the adapter found no client and returned without a call
\*   RaiseRate, RaiseOther: an exception left generate_story_image before
\*     the adapter was entered; RaiseRate carries a rate-limit message
ProviderOutcomes == {"Ok", "Empty", "RateLimited", "Rejected", "Transport"}
Escapes == {"RaiseRate", "RaiseOther"}

NoImage == [slide |-> 0, task |-> 0]
NoSeed == 0

\* values of the text_overlay argument (None, True, False) and of brand_id
\* (None, the id of the second stored brand, an id no stored brand has);
\* "unread" until the batch reads the argument
TextOverlayArgs == {"None", "True", "False"}
BrandIdArgs == {"None", "b", "x"}
\* contents of brands.json: no brand, or brands a and b in this order
BrandStores == { <<>>, <<"a", "b">> }

\* the style families of _get_style_specific_text_instructions, in the
\* order of its if / elif chain, each with its keywords
StyleFamilies ==
    << 
       [family |-> "Anime/Manga",
        keywords |-> << "anime", "manga", "japanese", "ghibli", "shinkai" >>],
       [family |-> "Comic Book/Pop Art",
        keywords |-> << "comic", "pop art", "marvel", "dc", "warhol",
                     "lichtenstein" >>],
       [family |-> "Cyberpunk/Neon",
        keywords |-> << "cyberpunk", "neon", "futuristic", "holographic",
                     "tech", "digital", "blade runner",
                     "ghost in the shell" >>],
       [family |-> "Vintage/Retro",
        keywords |-> << "vintage", "retro", "classic", "old", "1950",
                     "1960", "nostalgia", "antique" >>],
       [family |-> "Minimal/Corporate",
        keywords |-> << "minimal", "clean", "corporate", "premium",
                     "business", "professional", "bloomberg", "fortune" >>],
       [family |-> "Artistic/Editorial",
        keywords |-> << "watercolor", "painting", "artistic", "brush",
                     "editorial", "kinfolk" >>],
       [family |-> "Cinematic/Sports",
        keywords |-> << "cinematic", "film", "photo", "realistic",
                     "dramatic", "sports", "dynamic", "motion", "espn",
                     "nike", "national geographic" >>],
       [family |-> "Fantasy/Magical",
        keywords |-> << "fantasy", "magical", "ethereal", "mystical",
                     "elvish", "lord of the rings", "enchanted" >>],
       [family |-> "Sacred/Spiritual",
        keywords |-> << "sacred", "spiritual", "religious", "golden",
                     "divine", "holy", "temple", "renaissance" >>],
       [family |-> "Cosmic/Space",
        keywords |-> << "cosmic", "space", "stellar", "galaxy", "nebula",
                     "interstellar", "cosmos" >>],
       [family |-> "3D/Animated",
        keywords |-> << "3d", "pixar", "animated", "playful", "cartoon",
                     "nintendo", "render" >>],
       [family |-> "Street Art/Graffiti",
        keywords |-> << "graffiti", "street", "urban", "hip-hop", "spray",
                     "stencil" >>],
       [family |-> "Horror/Gothic",
        keywords |-> << "horror", "dark", "gothic", "mystery", "eerie",
                     "creepy", "crimson", "souls" >>],
       [family |-> "Warm/Lifestyle",
        keywords |-> << "warm", "food", "lifestyle", "cozy", "appetit",
                     "culinary", "cafe" >>],
       [family |-> "Nature/Documentary",
        keywords |-> << "nature", "wildlife", "earth", "documentary",
                     "forest", "ocean", "planet" >>]
    >>

\* aesthetic dicts: art_style and typography_style ("" for a missing key)
ArtStyles ==
    { "", "Anime", "Comic Anime", "handcrafted paper", "Oil Pastel",
      "NEON Noir", "vintage film", "Dark Fantasy", "golden temple",
      "Ocean Planet", "Claymation" }
TypographyStyles == { "", "Serif" }
Aesthetics ==
    [art_style : ArtStyles, typography_style : TypographyStyles]
NoAesthetic == [art_style |-> "", typography_style |-> ""]
\* the aesthetic of the plans a batch is called with
BatchAesthetics == { [art_style |-> "Comic Anime", typography_style |-> ""] }

\* slide numbers a consistency entry may list
SlideNumbers == 1..MaxSlides

\* consistency_data: None or {} (given = FALSE), or a dict with one
\* character and one recurring object, each appearing in some set of
\* slides, and an environment with or without its two entries
NoConsistency ==
    [given |-> FALSE, characters |-> << >>, objects |-> << >>,
     environment |-> [primary_setting |-> "", lighting_consistency |-> ""]]
Environments ==
    { [primary_setting |-> "", lighting_consistency |-> ""],
      [primary_setting |-> "harbour", lighting_consistency |-> "dusk"] }
ConsistencyChoices ==
    {NoConsistency} \cup
    { [given |-> TRUE,
       characters |-> << [name |-> "Mira", description |-> "red coat",
                          appears_in_slides |-> S] >>,
       objects |-> << [name |-> "lantern", description |-> "brass",
                       appears_in_slides |-> T] >>,
       environment |-> e] :
      S \in SUBSET SlideNumbers, T \in SUBSET SlideNumbers,
      e \in Environments }
\* the consistency data a batch is called with
BatchConsistency ==
    { [given |-> TRUE,
       characters |-> << [name |-> "Mira", description |-> "red coat",
                          appears_in_slides |-> {1}] >>,
       objects |-> << [name |-> "lantern", description |-> "brass",
                       appears_in_slides |-> SlideNumbers] >>,
       environment |-> [primary_setting |-> "harbour",
                        lighting_consistency |-> "dusk"]] }

\* no prompt composed yet
NoPrompt ==
    [slide |-> 0, consistency |-> << >>,
     text |-> [family |-> "", hint |-> ""]]

\* brand configurations: None (get_brand_by_id found nothing), the default
\* {"enabled": False, ...} of get_brand_config, or a stored brand
NoneConfig == [id |-> "", enabled |-> FALSE, none |-> TRUE]
DefaultConfig == [id |-> "", enabled |-> FALSE, none |-> FALSE]

VARIABLES
    phase,             \* position of the main thread in the batch call
    batch,             \* number of batch calls started so far
    gemini_client,     \* services.image.gemini_client is set
    fal_client,        \* services.image.fal_client is set
    slides,            \* plan['slides'] as the sequence of slide numbers
    provider,          \* provider argument
    max_workers,       \* max_workers argument
    base_seed,         \* base_seed of the batch (NoSeed for None)
    wpc,               \* per task: new (never submitted), queued, incall,
                       \* sleeping, returned, collected
    attempt,           \* per task: loop variable of the retry loop
    ret,               \* per task: image returned by the worker
    outcome,           \* per task: how the last generate_story_image ended
    calls,             \* per task: invocations of generate_story_image
    provCalls,         \* per task: invocations of the provider client
    sleeps,            \* per task: time.sleep calls
    seedsPassed,       \* seeds handed to the provider client in this batch
    seedDraws,         \* random.randint calls made by this batch
    results,           \* results dict: slide_number -> image
    writes,            \* per task: assignments to results made for it
    pos,               \* index of the save loop
    generated_images,  \* generated_images list
    overtaken,         \* a future was collected before an earlier slide's
    text_overlay,      \* text_overlay argument
    brand_id,          \* brand_id argument
    brands,            \* brands.json as the batch finds it
    brand_config,      \* brand_config of the batch
    use_text_overlay,  \* use_text_overlay of the batch
    postlog,           \* calls made by the save loop, in order
    aesthetic,         \* plan['aesthetic']
    consistency_data,  \* consistency_data argument
    prompt,            \* prompt last composed by generate_story_image
    request,           \* body of the POST /generate_from_plan being served
    response,          \* what the endpoint answered to it
    reloads,           \* calls of init_clients so far
    clients_gemini,    \* services.clients.gemini_client (a handle, 0 = None)
    clients_fal,       \* services.clients.fal_client
    image_gemini,      \* the name gemini_client of services.image
    image_fal,         \* the name fal_client of services.image
    handle_used,       \* module, handle and outcome of the last adapter call
    delays,            \* the backoff delays a worker slept, in milliseconds
    topic,             \* plan['topic']
    now,               \* the wall clock, in seconds
    timestamp,         \* timestamp of the batch
    safe_topic         \* safe_topic of the batch

vars == << phase, batch, gemini_client, fal_client, slides, provider,
           max_workers, base_seed, wpc, attempt, ret, outcome,
           calls, provCalls, sleeps, seedsPassed, seedDraws, results,
           writes, pos, generated_images, overtaken, text_overlay,
           brand_id, brands, brand_config, use_text_overlay, postlog,
           aesthetic, consistency_data, prompt, request, response,
           reloads, clients_gemini, clients_fal, image_gemini, image_fal,
           handle_used, delays, topic, now, timestamp, safe_topic >>

\* what the prompt is composed from, and the prompt
promptVars == << aesthetic, consistency_data, prompt >>

\* the endpoint, the client handles of the modules and the backoff delays
serviceVars == << request, response, reloads, clients_gemini, clients_fal,
                 image_gemini, image_fal, handle_used, delays, topic, now,
                 timestamp, safe_topic >>

\* what the files of a batch are named from
namingVars == << topic, now, timestamp, safe_topic >>

\* the client handles of services.clients and services.image
clientVars == << reloads, clients_gemini, clients_fal, image_gemini,
                image_fal, handle_used >>

\* what the save loop and its preparation work on
postVars == << text_overlay, brand_id, brands, brand_config,
               use_text_overlay, postlog >>

\* no request is being served, no client was touched, no worker slept
NoRequest == [plan |-> [keys |-> {}, slides |-> << >>], provider |-> "",
              brand_id |-> "", hf_quality_mode |-> "", none |-> TRUE]
NoResponse == [status |-> 0, images |-> << >>, generated |-> FALSE]
NoCall == [module |-> "", fn |-> "", handle |-> 0, current |-> 0,
           result |-> ""]

ServiceIdle ==
    /\ request = NoRequest
    /\ response = NoResponse
    /\ reloads = 0
    /\ clients_gemini = 0
    /\ clients_fal = 0
    /\ image_gemini = 0
    /\ image_fal = 0
    /\ handle_used = NoCall
    /\ delays = << >>
    /\ topic = ""
    /\ now = 0
    /\ timestamp = 0
    /\ safe_topic = ""

Tasks == 1..Len(slides)

EmptyMap == [n \in {} |-> NoImage]

\* results.get(n)
ResultsGet(n) == IF n \in DOMAIN results THEN results[n] ELSE NoImage

\* results[n] = img
ResultsPut(n, img) ==
    [k \in DOMAIN results \cup {n} |-> IF k = n THEN img ELSE results[k]]

\* the image generate_story_image produces for the slide of task i
Image(i) == [slide |-> slides[i], task |-> i]

\* variant: files are numbered by their rank among the saved ones
FilenameByRank(n) == << "slide", Len(generated_images) + 1 >>

\* f"{safe_topic}_{timestamp}_slide{slide_num}.png": within a batch the
\* prefix is fixed and the name is told by the slide number it carries
Filename(n) == << "slide", n >>

Init ==
    /\ phase = "idle"
    /\ batch = 0
    /\ gemini_client \in BOOLEAN
    /\ fal_client \in BOOLEAN
    /\ slides = <<>>
    /\ provider = "gemini-flash"
    /\ max_workers = MAX_PARALLEL_WORKERS
    /\ base_seed = NoSeed
    /\ wpc = <<>>
    /\ attempt = <<>>
    /\ ret = <<>>
    /\ outcome = <<>>
    /\ calls = <<>>
    /\ provCalls = <<>>
    /\ sleeps = <<>>
    /\ seedsPassed = {}
    /\ seedDraws = 0
    /\ results = EmptyMap
    /\ writes = <<>>
    /\ pos = 0
    /\ generated_images = <<>>
    /\ overtaken = FALSE
    /\ text_overlay = "unread"
    /\ brand_id = "unread"
    /\ brands = <<>>
    /\ brand_config = NoneConfig
    /\ use_text_overlay = FALSE
    /\ postlog = <<>>
    /\ aesthetic = NoAesthetic
    /\ consistency_data = NoConsistency
    /\ prompt = NoPrompt
    /\ ServiceIdle

\* ------------------------------------------------------------ main thread

\* variant: a seed is drawn whatever the provider is
SeedChoicesAnyProvider(prov) == SeedSamples

\* base_seed = random.randint(1, 2147483647) if provider == "fal" else None
SeedChoices(prov) == IF prov = "fal" THEN SeedSamples ELSE {NoSeed}

\* Entry of generate_story_from_plan_parallel up to the end of the submit
\* comprehension: arguments are bound, the seed is taken, the executor is
\* built and one task per slide is queued.  The caller may call again once
\* the previous call returned or raised.
\* ThreadPoolExecutor(max_workers=0) raises ValueError before any submit.
Call ==
    /\ phase \in {"idle", "done", "raised"}
    /\ batch < MaxBatches
    /\ \E p \in Plans, prov \in Providers, k \in 0..MaxWorkers :
         /\ slides' = p
         /\ provider' = prov
         /\ max_workers' = k
         /\ base_seed' \in SeedChoices(prov)
         /\ seedDraws' = IF prov = "fal" THEN 1 ELSE 0
         /\ phase' = IF k >= 1 THEN "collect" ELSE "raised"
         /\ wpc' = [i \in 1..Len(p) |-> IF k >= 1 THEN "queued" ELSE "new"]
         /\ attempt' = [i \in 1..Len(p) |-> 0]
         /\ ret' = [i \in 1..Len(p) |-> NoImage]
         /\ outcome' = [i \in 1..Len(p) |-> "none"]
         /\ calls' = [i \in 1..Len(p) |-> 0]
         /\ provCalls' = [i \in 1..Len(p) |-> 0]
         /\ sleeps' = [i \in 1..Len(p) |-> 0]
         /\ writes' = [i \in 1..Len(p) |-> 0]
    /\ batch' = batch + 1
    /\ seedsPassed' = {}
    /\ results' = EmptyMap
    /\ pos' = 0
    /\ generated_images' = <<>>
    /\ overtaken' = FALSE
    /\ text_overlay' = "unread"
    /\ brand_id' = "unread"
    /\ brands' = <<>>
    /\ brand_config' = NoneConfig
    /\ use_text_overlay' = FALSE
    /\ postlog' = <<>>
    /\ aesthetic' \in BatchAesthetics
    /\ consistency_data' \in BatchConsistency
    /\ UNCHANGED << gemini_client, fal_client, prompt >>
    /\ UNCHANGED serviceVars

\* ------------------------------------------------------------ worker pool

\* tasks a pool thread is executing
Busy == { i \in Tasks : wpc[i] \in {"incall", "sleeping"} }

\* provider calls in flight: workers inside generate_story_image
InFlight == { i \in Tasks : wpc[i] = "incall" }

\* the executor hands out work items in submission order
IsNextQueued(i) ==
    /\ wpc[i] = "queued"
    /\ \A j \in Tasks : j < i => wpc[j] # "queued"

\* variant: the pool is sized by the number of slides
PoolSizedBySlides == Cardinality(Busy) < Len(slides)

\* variant: no work item is taken while any worker sleeps in backoff
PoolIdleAndNobodySleeps ==
    /\ Cardinality(Busy) < max_workers
    /\ \A i \in Tasks : wpc[i] # "sleeping"

\* a pool thread may take a work item while fewer than max_workers are busy
PoolHasIdleThread == Cardinality(Busy) < max_workers

\* variant: the composer stores a default typography_style in the shared
\* aesthetic
StartTaskStoringDefault(i) ==
    /\ phase = "collect"
    /\ IsNextQueued(i)
    /\ PoolHasIdleThread
    /\ wpc' = [wpc EXCEPT ![i] = "incall"]
    /\ attempt' = [attempt EXCEPT ![i] = 0]
    /\ calls' = [calls EXCEPT ![i] = @ + 1]
    /\ UNCHANGED << phase, batch, gemini_client, fal_client, slides, provider,
                    max_workers, base_seed, ret, outcome,
                    provCalls, sleeps, seedsPassed, seedDraws, results,
                    writes, pos, generated_images,
                    overtaken >>
    /\ UNCHANGED postVars
    /\ aesthetic' = [aesthetic EXCEPT !.typography_style = "Professional"]
    /\ UNCHANGED << consistency_data, prompt >>
    /\ UNCHANGED serviceVars

\* A pool thread takes the next work item and the worker enters attempt 0
\* of its retry loop, invoking generate_story_image.
StartTask(i) ==
    /\ phase = "collect"
    /\ IsNextQueued(i)
    /\ PoolHasIdleThread
    /\ wpc' = [wpc EXCEPT ![i] = "incall"]
    /\ attempt' = [attempt EXCEPT ![i] = 0]
    /\ calls' = [calls EXCEPT ![i] = @ + 1]
    /\ UNCHANGED << phase, batch, gemini_client, fal_client, slides, provider,
                    max_workers, base_seed, ret, outcome,
                    provCalls, sleeps, seedsPassed, seedDraws, results,
                    writes, pos, generated_images,
                    overtaken >>
    /\ UNCHANGED postVars
    /\ UNCHANGED promptVars
    /\ UNCHANGED serviceVars

\* the client the adapter selected by generate_story_image checks
ClientConfigured == IF provider = "fal" THEN fal_client ELSE gemini_client

\* variant: the adapter falls back to a placeholder image on failure
AdapterReturnPlaceholder(i, o) == Image(i)

\* variant: the adapter builds an image from an empty response
AdapterReturnUnchecked(i, o) == IF o \in {"Ok", "Empty"} THEN Image(i) ELSE NoImage

\* what the adapters return for a provider outcome: the image on success and
\* None for an empty response or any exception of the client
AdapterReturn(i, o) == IF o = "Ok" THEN Image(i) ELSE NoImage

\* variant: generate_story_image calls the adapter without the seed
SeedArgDropped == NoSeed

\* the seed generate_story_image hands to the adapter: only fal takes one
SeedArg == IF provider = "fal" THEN base_seed ELSE NoSeed

\* error_str contains 'rate', '429', 'quota' or 'limit'
IsRateLimitError(o) == o = "RaiseRate"

\* variant: the worker stores its image in the results dict itself
CallReturnsStoringResult(i) ==
    /\ phase = "collect"
    /\ wpc[i] = "incall"
    /\ IF ClientConfigured
       THEN \E o \in ProviderOutcomes :
              /\ outcome' = [outcome EXCEPT ![i] = o]
              /\ provCalls' = [provCalls EXCEPT ![i] = @ + 1]
              /\ seedsPassed' = IF provider = "fal"
                                THEN seedsPassed \cup {SeedArg}
                                ELSE seedsPassed
              /\ ret' = [ret EXCEPT ![i] = AdapterReturn(i, o)]
              /\ results' = ResultsPut(slides[i], AdapterReturn(i, o))
       ELSE /\ outcome' = [outcome EXCEPT ![i] = "NoClient"]
            /\ ret' = [ret EXCEPT ![i] = NoImage]
            /\ results' = ResultsPut(slides[i], NoImage)
            /\ UNCHANGED << provCalls, seedsPassed >>
    /\ wpc' = [wpc EXCEPT ![i] = "returned"]
    /\ UNCHANGED << phase, batch, gemini_client, fal_client, slides, provider,
                    max_workers, base_seed, attempt, calls,
                    sleeps, seedDraws, writes, pos,
                    generated_images, overtaken >>
    /\ UNCHANGED postVars
    /\ UNCHANGED promptVars
    /\ UNCHANGED serviceVars

\* generate_story_image reaches the adapter and the adapter returns: with a
\* client it calls the provider once, whatever the provider does the adapter
\* returns (image or None) and the worker returns that value at once.
CallReturns(i) ==
    /\ phase = "collect"
    /\ wpc[i] = "incall"
    /\ IF ClientConfigured
       THEN \E o \in ProviderOutcomes :
              /\ outcome' = [outcome EXCEPT ![i] = o]
              /\ provCalls' = [provCalls EXCEPT ![i] = @ + 1]
              /\ seedsPassed' = IF provider = "fal"
                                THEN seedsPassed \cup {SeedArg}
                                ELSE seedsPassed
              /\ ret' = [ret EXCEPT ![i] = AdapterReturn(i, o)]
       ELSE /\ outcome' = [outcome EXCEPT ![i] = "NoClient"]
            /\ ret' = [ret EXCEPT ![i] = NoImage]
            /\ UNCHANGED << provCalls, seedsPassed >>
    /\ wpc' = [wpc EXCEPT ![i] = "returned"]
    /\ UNCHANGED << phase, batch, gemini_client, fal_client, slides, provider,
                    max_workers, base_seed, attempt, calls,
                    sleeps, seedDraws, results, writes, pos,
                    generated_images, overtaken >>
    /\ UNCHANGED postVars
    /\ UNCHANGED promptVars
    /\ UNCHANGED serviceVars

\* generate_story_image raises before the adapter is entered and the
\* worker's except clause runs: a rate-limit message starts the backoff
\* sleep, any other message ends the task with (slide_num, None).
CallRaises(i) ==
    /\ phase = "collect"
    /\ wpc[i] = "incall"
    /\ \E e \in Escapes :
         /\ outcome' = [outcome EXCEPT ![i] = e]
         /\ IF IsRateLimitError(e)
            THEN /\ wpc' = [wpc EXCEPT ![i] = "sleeping"]
                 /\ sleeps' = [sleeps EXCEPT ![i] = @ + 1]
                 /\ UNCHANGED ret
            ELSE /\ wpc' = [wpc EXCEPT ![i] = "returned"]
                 /\ ret' = [ret EXCEPT ![i] = NoImage]
                 /\ UNCHANGED sleeps
    /\ UNCHANGED << phase, batch, gemini_client, fal_client, slides, provider,
                    max_workers, base_seed, attempt, calls,
                    provCalls, seedsPassed, seedDraws, results, writes, pos,
                    generated_images,
                    overtaken >>
    /\ UNCHANGED postVars
    /\ UNCHANGED promptVars
    /\ UNCHANGED serviceVars

\* An exception leaves the worker: the except clause itself raises (str(e),
\* print or time.sleep fails) while it handles what generate_story_image
\* raised.  The executor stores the exception in the future and the worker
\* has returned nothing.
WorkerRaises(i) ==
    /\ phase = "collect"
    /\ wpc[i] = "incall"
    /\ outcome' = [outcome EXCEPT ![i] = "WorkerRaised"]
    /\ ret' = [ret EXCEPT ![i] = NoImage]
    /\ wpc' = [wpc EXCEPT ![i] = "returned"]
    /\ UNCHANGED << phase, batch, gemini_client, fal_client, slides, provider,
                    max_workers, base_seed, attempt, calls,
                    provCalls, sleeps, seedsPassed, seedDraws, results,
                    writes, pos, generated_images, overtaken >>
    /\ UNCHANGED postVars
    /\ UNCHANGED promptVars
    /\ UNCHANGED serviceVars

\* time.sleep(delay) returns and the for loop advances: the next attempt
\* invokes generate_story_image again, or the range is exhausted and the
\* worker returns (slide_num, None).
WakeUp(i) ==
    /\ phase = "collect"
    /\ wpc[i] = "sleeping"
    /\ attempt' = [attempt EXCEPT ![i] = @ + 1]
    /\ IF attempt[i] + 1 < RETRY_MAX_ATTEMPTS
       THEN /\ wpc' = [wpc EXCEPT ![i] = "incall"]
            /\ calls' = [calls EXCEPT ![i] = @ + 1]
            /\ UNCHANGED ret
       ELSE /\ wpc' = [wpc EXCEPT ![i] = "returned"]
            /\ ret' = [ret EXCEPT ![i] = NoImage]
            /\ UNCHANGED calls
    /\ UNCHANGED << phase, batch, gemini_client, fal_client, slides, provider,
                    max_workers, base_seed, outcome, provCalls,
                    sleeps, seedsPassed, seedDraws, results, writes, pos,
                    generated_images,
                    overtaken >>
    /\ UNCHANGED postVars
    /\ UNCHANGED promptVars
    /\ UNCHANGED serviceVars

\* --------------------------------------------------- main thread, collect

\* variant: results are stored in arrival order
ResultKeyByArrival(i) == Cardinality({ j \in Tasks : wpc[j] = "collected" }) + 1

\* the key as_completed's loop body stores the result of task i under:
\* result_num, the slide number the worker returned
ResultKey(i) == slides[i]

\* future.result() raises what the worker raised
FutureRaised(i) == outcome[i] = "WorkerRaised"

\* future_to_slide[future]: the slide number the task was submitted for
future_to_slide(i) == slides[i]

\* variant: the except clause records the failure under the number of the
\* plan's first slide
FailedKeyFirstSlide(i) == slides[1]

\* the key the except clause of the as_completed loop stores None under
FailedKey(i) == future_to_slide(i)

\* the assignment to results the body of the as_completed loop makes for
\* the future of task i: the worker's pair, or None under slide_num when
\* future.result() raised
Collected(i) ==
    IF FutureRaised(i)
    THEN [key |-> FailedKey(i), image |-> NoImage]
    ELSE [key |-> ResultKey(i), image |-> ret[i]]

\* variant: a failed slide makes the collecting loop raise
CollectOrAbort(i) ==
    /\ phase = "collect"
    /\ wpc[i] = "returned"
    /\ phase' = IF Collected(i).image = NoImage THEN "raised" ELSE phase
    /\ results' = ResultsPut(Collected(i).key, Collected(i).image)
    /\ writes' = [writes EXCEPT ![i] = @ + 1]
    /\ wpc' = [wpc EXCEPT ![i] = "collected"]
    /\ attempt' = [attempt EXCEPT ![i] = 0]
    /\ outcome' = [outcome EXCEPT ![i] = IF FutureRaised(i) THEN @ ELSE "none"]
    /\ calls' = [calls EXCEPT ![i] = 0]
    /\ provCalls' = [provCalls EXCEPT ![i] = 0]
    /\ sleeps' = [sleeps EXCEPT ![i] = 0]
    /\ overtaken' = (overtaken \/ \E j \in Tasks : j < i /\ wpc[j] # "collected")
    /\ UNCHANGED << batch, gemini_client, fal_client, slides, provider,
                    max_workers, base_seed, ret, seedsPassed, seedDraws, pos,
                    generated_images >>
    /\ UNCHANGED postVars
    /\ UNCHANGED promptVars
    /\ UNCHANGED serviceVars

\* One iteration of the as_completed loop: a finished future is taken and
\* its image is stored under the slide number the worker returned.  The
\* worker's frame is gone: what was observed of its run (attempt, outcome,
\* calls, provCalls, sleeps) is dropped with it; a future that holds an
\* exception keeps holding it.
Collect(i) ==
    /\ phase = "collect"
    /\ wpc[i] = "returned"
    /\ results' = ResultsPut(Collected(i).key, Collected(i).image)
    /\ writes' = [writes EXCEPT ![i] = @ + 1]
    /\ wpc' = [wpc EXCEPT ![i] = "collected"]
    /\ attempt' = [attempt EXCEPT ![i] = 0]
    /\ outcome' = [outcome EXCEPT ![i] = IF FutureRaised(i) THEN @ ELSE "none"]
    /\ calls' = [calls EXCEPT ![i] = 0]
    /\ provCalls' = [provCalls EXCEPT ![i] = 0]
    /\ sleeps' = [sleeps EXCEPT ![i] = 0]
    /\ overtaken' = (overtaken \/ \E j \in Tasks : j < i /\ wpc[j] # "collected")
    /\ UNCHANGED << phase, batch, gemini_client, fal_client, slides, provider,
                    max_workers, base_seed, ret, seedsPassed, seedDraws, pos,
                    generated_images >>
    /\ UNCHANGED postVars
    /\ UNCHANGED promptVars
    /\ UNCHANGED serviceVars

\* variant: the collecting loop is left after the first future
FirstCollected == Tasks = {} \/ \E i \in Tasks : wpc[i] = "collected"

\* variant: the save loop starts once every task was handed to a thread
NothingQueued == \A i \in Tasks : wpc[i] # "queued"

\* as_completed is exhausted once every future was yielded
AllCollected == \A i \in Tasks : wpc[i] = "collected"

\* get_brand_by_id: the stored brand with that id, or None
get_brand_by_id(store, id) ==
    IF \E k \in 1..Len(store) : store[k] = id
    THEN [id |-> id, enabled |-> FALSE, none |-> FALSE]
    ELSE NoneConfig

\* get_brand_config: the first stored brand, switched on, or the default
get_brand_config(store) ==
    IF store # <<>>
    THEN [id |-> store[1], enabled |-> TRUE, none |-> FALSE]
    ELSE DefaultConfig

\* "if brand_id: ... else: ..." of the batch
BrandConfigOf(store, id) ==
    IF id # "None"
    THEN LET c == get_brand_by_id(store, id)
         IN  IF ~c.none THEN [c EXCEPT !.enabled = TRUE] ELSE c
    ELSE get_brand_config(store)

\* text_overlay if text_overlay is not None else TEXT_OVERLAY_ENABLED
UseTextOverlay(arg) ==
    IF arg # "None" THEN arg = "True" ELSE TEXT_OVERLAY_ENABLED

\* The with block ends (the pool is joined and its futures are done with),
\* the brand configuration and
\* use_text_overlay are worked out and the save loop is entered.  The
\* arguments brand_id and text_overlay are put to use here for the first
\* time and brands.json is read here: the model draws all three at this
\* step.
JoinPool ==
    /\ phase = "collect"
    /\ AllCollected
    /\ phase' = "assemble"
    /\ pos' = 1
    /\ \E t \in TextOverlayArgs, b \in BrandIdArgs, store \in BrandStores :
         /\ text_overlay' = t
         /\ brand_id' = b
         /\ brands' = store
         /\ brand_config' = BrandConfigOf(store, b)
         /\ use_text_overlay' = UseTextOverlay(t)
    /\ outcome' = [i \in Tasks |-> "none"]
    /\ UNCHANGED << batch, gemini_client, fal_client, slides, provider,
                    max_workers, base_seed, wpc, attempt, ret,
                    calls, provCalls, sleeps, seedsPassed,
                    seedDraws, results, writes, generated_images,
                    overtaken, postlog >>
    /\ UNCHANGED promptVars
    /\ UNCHANGED serviceVars

\* ------------------------------------------------------ main thread, save

\* truth value of "if image:"
Present(img) == img # NoImage

\* what _apply_text_overlay does to the image of a slide that has, or has
\* not, a title or a key fact
apply_text_overlay(hasText) ==
    IF ~TEXT_OVERLAY_ENABLED THEN "unchanged"
    ELSE IF ~hasText THEN "unchanged"
    ELSE "drawn"

\* what apply_watermark does to an image: the id of the brand whose mark is
\* drawn (a stored brand is taken to have its logo or text), or unchanged
apply_watermark(config) ==
    LET c == IF config.none THEN get_brand_config(brands) ELSE config
    IN  IF ~c.enabled THEN "unchanged" ELSE c.id

\* variant: the watermark is stamped before the text is drawn
PostStepsWatermarkFirst(use) ==
    IF use THEN << "watermark", "overlay", "save" >>
    ELSE << "watermark", "save" >>

\* the calls the loop body makes for a present image, in program order
PostSteps(use) ==
    IF use THEN << "overlay", "watermark", "save" >>
    ELSE << "watermark", "save" >>

\* One iteration of "for slide in slides": the slide's image is looked up
\* by slide number; a present image is post-processed and saved and its
\* path appended, an absent one is skipped.  hasText tells whether the
\* slide has a title or a key fact.
SaveSlide ==
    /\ phase = "assemble"
    /\ pos <= Len(slides)
    /\ LET slide_num == slides[pos]
           image == ResultsGet(slide_num)
           steps == PostSteps(use_text_overlay)
       IN  IF Present(image)
           THEN /\ \E hasText \in BOOLEAN :
                     postlog' = postlog \o
                       [k \in 1..Len(steps) |->
                          [at |-> pos, slide |-> slide_num, op |-> steps[k],
                           text |-> (steps[k] = "overlay" /\ hasText),
                           effect |->
                             CASE steps[k] = "overlay" ->
                                    apply_text_overlay(hasText)
                               [] steps[k] = "watermark" ->
                                    apply_watermark(brand_config)
                               [] OTHER -> "written"]]
                /\ generated_images' =
                       Append(generated_images, Filename(slide_num))
           ELSE UNCHANGED << generated_images, postlog >>
    /\ pos' = pos + 1
    /\ UNCHANGED << phase, batch, gemini_client, fal_client, slides, provider,
                    max_workers, base_seed, wpc, attempt, ret,
                    outcome, calls, provCalls, sleeps, seedsPassed,
                    seedDraws, results, writes, overtaken, text_overlay,
                    brand_id, brands, brand_config, use_text_overlay >>
    /\ UNCHANGED promptVars
    /\ UNCHANGED serviceVars

\* The loop is over and generated_images is returned.  The frame of the
\* call is gone: its arguments brand_id and text_overlay, its locals
\* brand_config and use_text_overlay and what was observed of the save loop
\* are dropped with it.
Return ==
    /\ phase = "assemble"
    /\ pos > Len(slides)
    /\ phase' = "done"
    /\ text_overlay' = "unread"
    /\ brand_id' = "unread"
    /\ brands' = <<>>
    /\ brand_config' = NoneConfig
    /\ use_text_overlay' = FALSE
    /\ postlog' = <<>>
    /\ UNCHANGED << batch, gemini_client, fal_client, slides, provider,
                    max_workers, base_seed, wpc, attempt, ret,
                    outcome, calls, provCalls, sleeps, seedsPassed,
                    seedDraws, results, writes, pos, generated_images,
                    overtaken >>
    /\ UNCHANGED promptVars
    /\ UNCHANGED serviceVars

Next ==
    \/ Call
    \/ \E i \in Tasks : StartTask(i)
    \/ \E i \in Tasks : CallReturns(i)
    \/ \E i \in Tasks : CallRaises(i)
    \/ \E i \in Tasks : WakeUp(i)
    \/ \E i \in Tasks : Collect(i)
    \/ JoinPool
    \/ SaveSlide
    \/ Return

Spec == Init /\ [][Next]_vars

\* a step of the running batch: any step but a new call
BatchStep ==
    \/ \E i \in Tasks : StartTask(i)
    \/ \E i \in Tasks : CallReturns(i)
    \/ \E i \in Tasks : CallRaises(i)
    \/ \E i \in Tasks : WakeUp(i)
    \/ \E i \in Tasks : Collect(i)
    \/ JoinPool
    \/ SaveSlide
    \/ Return

\* The threads of a running batch keep being scheduled: sleeps end, an
\* invocation of generate_story_image comes back (by returning or raising)
\* and the main thread goes on.  Nothing obliges the caller to call again.
Fairness == WF_vars(BatchStep)

FairSpec == Spec /\ Fairness

\* The batch where no exception leaves generate_story_image: every
\* invocation comes back from the adapter, with an image or with None.
NextPlain ==
    \/ Call
    \/ \E i \in Tasks : StartTask(i)
    \/ \E i \in Tasks : CallReturns(i)
    \/ \E i \in Tasks : Collect(i)
    \/ JoinPool
    \/ SaveSlide
    \/ Return

SpecPlain == Init /\ [][NextPlain]_vars

\* the for loop of the sequential generate_story_from_plan from position k
\* on, where ok[k] tells whether generate_story_image returns an image for
\* the slide at position k: the slide is saved under its own number and the
\* path appended, or the slide is skipped
RECURSIVE SequentialLoop(_, _, _, _)
SequentialLoop(p, ok, k, acc) ==
    IF k > Len(p) THEN acc
    ELSE SequentialLoop(p, ok, k + 1,
                        IF ok[k] THEN Append(acc, Filename(p[k])) ELSE acc)

\* what generate_story_from_plan returns
generate_story_from_plan(p, ok) == SequentialLoop(p, ok, 1, << >>)

\* The batch where, besides, the except clause of a worker can itself fail
\* (stdout is closed, the sleep is interrupted), so that a future can hold
\* an exception.
NextFaulty ==
    \/ Next
    \/ \E i \in Tasks : WorkerRaises(i)

SpecFaulty == Init /\ [][NextFaulty]_vars

\* ===================================================================
\* Prompt composition: the pure functions generate_story_image builds the
\* prompt of a slide from
\* ===================================================================

\* str.lower() on one character
LowerChar(c) ==
    CASE c = "A" -> "a" [] c = "B" -> "b" [] c = "C" -> "c" [] c = "D" -> "d"
      [] c = "E" -> "e" [] c = "F" -> "f" [] c = "G" -> "g" [] c = "H" -> "h"
      [] c = "I" -> "i" [] c = "J" -> "j" [] c = "K" -> "k" [] c = "L" -> "l"
      [] c = "M" -> "m" [] c = "N" -> "n" [] c = "O" -> "o" [] c = "P" -> "p"
      [] c = "Q" -> "q" [] c = "R" -> "r" [] c = "S" -> "s" [] c = "T" -> "t"
      [] c = "U" -> "u" [] c = "V" -> "v" [] c = "W" -> "w" [] c = "X" -> "x"
      [] c = "Y" -> "y" [] c = "Z" -> "z"
      [] OTHER -> c

\* str.lower()
RECURSIVE Lower(_)
Lower(str) ==
    IF Len(str) = 0 THEN ""
    ELSE LowerChar(SubSeq(str, 1, 1)) \o Lower(SubSeq(str, 2, Len(str)))

\* k in str
Contains(str, k) ==
    \E i \in 1..(Len(str) - Len(k) + 1) : SubSeq(str, i, i + Len(k) - 1) = k

\* any(k in art_style for k in [...]) for the f-th family
MatchesFamily(art_style, f) ==
    \E k \in 1..Len(StyleFamilies[f].keywords) :
        Contains(art_style, StyleFamilies[f].keywords[k])

\* variant: a later matching family overrides an earlier one
RECURSIVE ElifChainLastWins(_, _)
ElifChainLastWins(art_style, f) ==
    IF f > Len(StyleFamilies) THEN 0
    ELSE LET later == ElifChainLastWins(art_style, f + 1)
         IN  IF later # 0 THEN later
             ELSE IF MatchesFamily(art_style, f) THEN f ELSE 0

\* the if / elif chain from its f-th branch on: the index of the branch
\* taken, 0 for the else branch
RECURSIVE ElifChain(_, _)
ElifChain(art_style, f) ==
    IF f > Len(StyleFamilies) THEN 0
    ELSE IF MatchesFamily(art_style, f) THEN f
    ELSE ElifChain(art_style, f + 1)

\* _get_style_specific_text_instructions: the instruction set returned, told
\* by its heading and by the typography hint it ends with
get_style_specific_text_instructions(aes) ==
    LET art_style == Lower(aes.art_style)
        typography_style == aes.typography_style
        f == ElifChain(art_style, 1)
    IN  IF f # 0
        THEN [family |-> StyleFamilies[f].family, hint |-> typography_style]
        ELSE IF typography_style # ""
        THEN [family |-> "Custom", hint |-> typography_style]
        ELSE [family |-> "Professional", hint |-> ""]

\* variant: every entry is injected, whatever slides it lists
build_consistency_section_unfiltered(slide_num, cd) ==
    IF ~cd.given THEN << >>
    ELSE [k \in 1..Len(cd.characters) |->
            << "CHARACTER", cd.characters[k].name,
               cd.characters[k].description >>]
         \o [k \in 1..Len(cd.objects) |->
            << "RECURRING ELEMENT", cd.objects[k].name,
               cd.objects[k].description >>]

\* _build_consistency_section: the lines of the section in order, << >> for
\* the empty string
build_consistency_section(slide_num, cd) ==
    IF ~cd.given THEN << >>
    ELSE LET chars == SelectSeq(cd.characters,
                        LAMBDA c : slide_num \in c.appears_in_slides)
             objs == SelectSeq(cd.objects,
                        LAMBDA o : slide_num \in o.appears_in_slides)
             env == cd.environment
         IN  [k \in 1..Len(chars) |->
                << "CHARACTER", chars[k].name, chars[k].description >>]
             \o [k \in 1..Len(objs) |->
                << "RECURRING ELEMENT", objs[k].name, objs[k].description >>]
             \o (IF env.primary_setting # ""
                 THEN << << "SETTING", env.primary_setting, "" >> >>
                 ELSE << >>)
             \o (IF env.lighting_consistency # ""
                 THEN << << "LIGHTING", env.lighting_consistency, "" >> >>
                 ELSE << >>)

\* generate_story_image up to the provider dispatch, for slide n: the prompt
\* is put together from the text instructions and the consistency section
ComposePrompt(n) ==
    /\ phase = "compose"
    /\ prompt' = [slide |-> n,
                  consistency |-> build_consistency_section(n, consistency_data),
                  text |-> get_style_specific_text_instructions(aesthetic)]
    /\ UNCHANGED << phase, batch, gemini_client, fal_client, slides, provider,
                    max_workers, base_seed, wpc, attempt, ret,
                    outcome, calls, provCalls, sleeps, seedsPassed,
                    seedDraws, results, writes, pos, generated_images,
                    overtaken, aesthetic, consistency_data >>
    /\ UNCHANGED postVars
    /\ UNCHANGED serviceVars

\* the composer is handed any aesthetic and any consistency data
InitCompose ==
    /\ phase = "compose"
    /\ batch = 0
    /\ gemini_client = TRUE
    /\ fal_client = TRUE
    /\ slides = <<>>
    /\ provider = "gemini-flash"
    /\ max_workers = MAX_PARALLEL_WORKERS
    /\ base_seed = NoSeed
    /\ wpc = <<>>
    /\ attempt = <<>>
    /\ ret = <<>>
    /\ outcome = <<>>
    /\ calls = <<>>
    /\ provCalls = <<>>
    /\ sleeps = <<>>
    /\ seedsPassed = {}
    /\ seedDraws = 0
    /\ results = EmptyMap
    /\ writes = <<>>
    /\ pos = 0
    /\ generated_images = <<>>
    /\ overtaken = FALSE
    /\ text_overlay = "unread"
    /\ brand_id = "unread"
    /\ brands = <<>>
    /\ brand_config = NoneConfig
    /\ use_text_overlay = FALSE
    /\ postlog = <<>>
    /\ aesthetic \in Aesthetics
    /\ consistency_data \in ConsistencyChoices
    /\ prompt = NoPrompt
    /\ ServiceIdle

NextCompose == \E n \in SlideNumbers : ComposePrompt(n)

SpecCompose == InitCompose /\ [][NextCompose]_vars

\* ===================================================================
\* The HTTP endpoint POST /generate_from_plan of main.py
\* ===================================================================

\* no batch is running and none has run; ph tells which part of the
\* program the specification is about
BatchAtRest(ph) ==
    /\ phase = ph
    /\ batch = 0
    /\ gemini_client = TRUE
    /\ fal_client = TRUE
    /\ slides = <<>>
    /\ provider = "gemini-flash"
    /\ max_workers = MAX_PARALLEL_WORKERS
    /\ base_seed = NoSeed
    /\ wpc = <<>>
    /\ attempt = <<>>
    /\ ret = <<>>
    /\ outcome = <<>>
    /\ calls = <<>>
    /\ provCalls = <<>>
    /\ sleeps = <<>>
    /\ seedsPassed = {}
    /\ seedDraws = 0
    /\ results = EmptyMap
    /\ writes = <<>>
    /\ pos = 0
    /\ generated_images = <<>>
    /\ overtaken = FALSE
    /\ text_overlay = "unread"
    /\ brand_id = "unread"
    /\ brands = <<>>
    /\ brand_config = NoneConfig
    /\ use_text_overlay = FALSE
    /\ postlog = <<>>
    /\ aesthetic = NoAesthetic
    /\ consistency_data = NoConsistency
    /\ prompt = NoPrompt

batchVars == << phase, batch, gemini_client, fal_client, slides, provider,
               max_workers, base_seed, wpc, attempt, ret, outcome,
               calls, provCalls, sleeps, seedsPassed, seedDraws, results,
               writes, pos, generated_images, overtaken >>

\* the keyword and positional parameters generate_story_from_plan_parallel
\* declares
ParallelParams ==
    {"plan", "output_dir", "provider", "brand_id", "consistency_data",
     "max_workers", "text_overlay"}

\* the arguments the endpoint calls it with
EndpointKwargs ==
    {"plan", "output_dir", "provider", "brand_id", "consistency_data",
     "hf_quality_mode"}

\* Python binds a call's arguments to the function's parameters and raises
\* TypeError for a keyword the function does not declare
BindsArguments(kwargs, params) == kwargs \subseteq params

\* request.plan: a dict told by the keys it has and by its slides
PlanDicts ==
    { [keys |-> ks, slides |-> IF "slides" \in ks THEN p ELSE << >>] :
        ks \in SUBSET {"topic", "slides"}, p \in Plans }

HfQualityModes == {"free", "quality"}

\* GenerateFromPlanRequest
Requests ==
    { [plan |-> pd, provider |-> prov, brand_id |-> b,
       hf_quality_mode |-> hf, none |-> FALSE] :
        pd \in PlanDicts, prov \in Providers, b \in BrandIdArgs,
        hf \in HfQualityModes }

\* files_to_urls: one URL per file, in the order of the files
files_to_urls(files) == [k \in 1..Len(files) |-> << "url", files[k] >>]

\* what generate_story_from_plan_parallel returns for a plan whose slide
\* numbers got the images told by got: the paths of the slides that have an
\* image, in plan order
PipelineFiles(sl, got) ==
    LET kept == SelectSeq([k \in 1..Len(sl) |-> sl[k]], LAMBDA n : got[n])
    IN  [k \in 1..Len(kept) |-> Filename(kept[k])]

\* a client posts a request
ReceiveRequest ==
    /\ phase = "endpoint"
    /\ request.none \/ response # NoResponse
    /\ request' \in Requests
    /\ response' = NoResponse
    /\ UNCHANGED batchVars
    /\ UNCHANGED postVars
    /\ UNCHANGED promptVars
    /\ UNCHANGED clientVars
    /\ UNCHANGED delays
    /\ UNCHANGED namingVars

\* The handler of POST /generate_from_plan: a plan that is empty or has no
\* topic is answered 400; otherwise the pipeline is called inside the try
\* block and whatever it raises, the TypeError of a call that does not bind
\* included, is answered 500; the files it returns are answered as URLs.
generate_from_plan ==
    /\ phase = "endpoint"
    /\ ~request.none
    /\ response = NoResponse
    /\ IF request.plan.keys = {} \/ "topic" \notin request.plan.keys
       THEN response' = [status |-> 400, images |-> << >>,
                         generated |-> FALSE]
       ELSE IF ~BindsArguments(EndpointKwargs, ParallelParams)
       THEN response' = [status |-> 500, images |-> << >>,
                         generated |-> FALSE]
       ELSE \E got \in [{ request.plan.slides[k] :
                             k \in 1..Len(request.plan.slides) }
                             -> BOOLEAN] :
              response' =
                [status |-> 200,
                 images |-> files_to_urls(
                              PipelineFiles(request.plan.slides, got)),
                 generated |-> TRUE]
    /\ UNCHANGED batchVars
    /\ UNCHANGED postVars
    /\ UNCHANGED promptVars
    /\ UNCHANGED clientVars
    /\ UNCHANGED << request, delays >>
    /\ UNCHANGED namingVars

InitEndpoint ==
    /\ BatchAtRest("endpoint")
    /\ ServiceIdle

NextEndpoint ==
    \/ ReceiveRequest
    \/ generate_from_plan

SpecEndpoint == InitEndpoint /\ [][NextEndpoint]_vars

\* ===================================================================
\* The client handles: services/clients.py and the modules that use them
\* ===================================================================

\* "from .clients import gemini_client, fal_client" binds the names of
\* services.image when the module is imported; _generate_with_gemini reads
\* that name
ImageGemini == image_gemini

\* variant: services.llm binds the name when it is imported, as
\* services.image does
LlmGeminiAtImport == image_gemini

\* "from . import clients": services.llm reads clients.gemini_client when
\* it is called
LlmGemini == clients_gemini

\* init_clients: the globals of services.clients are rebound to None and,
\* where the key is set and the package imports, to a new client.  Called
\* by POST /reload_clients.  No name of another module is touched.
init_clients ==
    /\ phase = "clients"
    /\ reloads <= MaxReloads
    /\ reloads' = reloads + 1
    /\ \E g \in BOOLEAN, f \in BOOLEAN :
         /\ clients_gemini' = IF g THEN reloads + 1 ELSE 0
         /\ clients_fal' = IF f THEN reloads + 1 ELSE 0
    /\ UNCHANGED << image_gemini, image_fal, handle_used >>
    /\ UNCHANGED batchVars
    /\ UNCHANGED postVars
    /\ UNCHANGED promptVars
    /\ UNCHANGED << request, response, delays >>
    /\ UNCHANGED namingVars

\* services.image._generate_with_gemini: without a client it prints and
\* returns None, with one it calls generate_images on it
image_generate_with_gemini ==
    /\ phase = "clients"
    /\ handle_used' =
         [module |-> "image", fn |-> "_generate_with_gemini",
          handle |-> ImageGemini, current |-> clients_gemini,
          result |-> IF ImageGemini = 0 THEN "not initialized"
                     ELSE "called"]
    /\ UNCHANGED << reloads, clients_gemini, clients_fal, image_gemini,
                    image_fal >>
    /\ UNCHANGED batchVars
    /\ UNCHANGED postVars
    /\ UNCHANGED promptVars
    /\ UNCHANGED << request, response, delays >>
    /\ UNCHANGED namingVars

\* services.image._generate_with_fal
image_generate_with_fal ==
    /\ phase = "clients"
    /\ handle_used' =
         [module |-> "image", fn |-> "_generate_with_fal",
          handle |-> image_fal, current |-> clients_fal,
          result |-> IF image_fal = 0 THEN "not initialized" ELSE "called"]
    /\ UNCHANGED << reloads, clients_gemini, clients_fal, image_gemini,
                    image_fal >>
    /\ UNCHANGED batchVars
    /\ UNCHANGED postVars
    /\ UNCHANGED promptVars
    /\ UNCHANGED << request, response, delays >>
    /\ UNCHANGED namingVars

\* services.llm._generate_with_gemini: without a client it raises "Gemini
\* client not available", with one it calls generate_content on it
llm_generate_with_gemini ==
    /\ phase = "clients"
    /\ handle_used' =
         [module |-> "llm", fn |-> "_generate_with_gemini",
          handle |-> LlmGemini, current |-> clients_gemini,
          result |-> IF LlmGemini = 0 THEN "not available" ELSE "called"]
    /\ UNCHANGED << reloads, clients_gemini, clients_fal, image_gemini,
                    image_fal >>
    /\ UNCHANGED batchVars
    /\ UNCHANGED postVars
    /\ UNCHANGED promptVars
    /\ UNCHANGED << request, response, delays >>
    /\ UNCHANGED namingVars

\* services.llm.generate_text: the wanted provider if it is available, else
\* the other one, else "No LLM provider available" is raised.  up is what
\* check_ollama answers.
generate_text ==
    /\ phase = "clients"
    /\ \E use_provider \in {"gemini", "ollama"}, up \in BOOLEAN :
         handle_used' =
           [module |-> "llm", fn |-> "generate_text",
            handle |-> IF (use_provider = "ollama" /\ up) \/ LlmGemini = 0
                       THEN 0 ELSE LlmGemini,
            current |-> clients_gemini,
            result |->
              IF use_provider = "ollama"
              THEN IF up THEN "ollama"
                   ELSE IF LlmGemini # 0 THEN "called"
                   ELSE "no provider"
              ELSE IF LlmGemini # 0 THEN "called"
                   ELSE IF up THEN "ollama"
                   ELSE "no provider"]
    /\ UNCHANGED << reloads, clients_gemini, clients_fal, image_gemini,
                    image_fal >>
    /\ UNCHANGED batchVars
    /\ UNCHANGED postVars
    /\ UNCHANGED promptVars
    /\ UNCHANGED << request, response, delays >>
    /\ UNCHANGED namingVars

\* The modules are imported: services.clients ran init_clients once and
\* services.image bound its two names to what the globals held then.
InitClients ==
    /\ BatchAtRest("clients")
    /\ request = NoRequest
    /\ response = NoResponse
    /\ delays = << >>
    /\ topic = ""
    /\ now = 0
    /\ timestamp = 0
    /\ safe_topic = ""
    /\ reloads = 1
    /\ clients_gemini \in {0, 1}
    /\ clients_fal \in {0, 1}
    /\ image_gemini = clients_gemini
    /\ image_fal = clients_fal
    /\ handle_used = NoCall

NextClients ==
    \/ init_clients
    \/ image_generate_with_gemini
    \/ image_generate_with_fal
    \/ llm_generate_with_gemini
    \/ generate_text

SpecClients == InitClients /\ [][NextClients]_vars

\* ===================================================================
\* The backoff delay of _generate_single_slide_worker
\* ===================================================================

\* b ** e for a natural exponent
RECURSIVE Pow(_, _)
Pow(b, e) == IF e = 0 THEN 1 ELSE b * Pow(b, e - 1)

\* the values random.uniform(0, 1) is sampled at, in milliseconds
JitterSamples == { (1000 * k) \div JitterSteps : k \in 0..JitterSteps }

\* variant: the delay grows by the attempt index as a factor
BackoffBaseLinear(a) == RETRY_BASE_DELAY * a * 1000

\* RETRY_BASE_DELAY ** attempt, in milliseconds
BackoffBase(a) == Pow(RETRY_BASE_DELAY, a) * 1000

\* The except clause of the worker for a rate-limit error in the attempt
\* with index Len(delays): the delay is computed and slept and the loop
\* goes to the next attempt.
Backoff ==
    /\ phase = "backoff"
    /\ Len(delays) < RETRY_MAX_ATTEMPTS
    /\ \E j \in JitterSamples :
         delays' = Append(delays,
                          [attempt |-> Len(delays),
                           base |-> BackoffBase(Len(delays)),
                           jitter |-> j,
                           delay |-> BackoffBase(Len(delays)) + j])
    /\ UNCHANGED batchVars
    /\ UNCHANGED postVars
    /\ UNCHANGED promptVars
    /\ UNCHANGED clientVars
    /\ UNCHANGED << request, response >>
    /\ UNCHANGED namingVars

\* the worker returns (an attempt succeeded, failed for another reason or
\* the attempts are used up) and the pool thread runs the next worker
WorkerReturns ==
    /\ phase = "backoff"
    /\ delays # << >>
    /\ delays' = << >>
    /\ UNCHANGED batchVars
    /\ UNCHANGED postVars
    /\ UNCHANGED promptVars
    /\ UNCHANGED clientVars
    /\ UNCHANGED << request, response >>
    /\ UNCHANGED namingVars

InitBackoff ==
    /\ BatchAtRest("backoff")
    /\ ServiceIdle

NextBackoff ==
    \/ Backoff
    \/ WorkerReturns

SpecBackoff == InitBackoff /\ [][NextBackoff]_vars

\* ===================================================================
\* The names of the files of a batch
\* ===================================================================

\* values of plan['topic']
Topics ==
    {"", "Cats", "AI & art: 2024/25", "  padded topic ", "why? how!",
     "The history of the roman army and navy",
     "The history of the roman empire and its fall"}

\* characters str.isalnum() holds of
AlnumChars ==
    {"a", "b", "c", "d", "e", "f", "g", "h", "i", "j", "k", "l", "m", "n",
     "o", "p", "q", "r", "s", "t", "u", "v", "w", "x", "y", "z",
     "A", "B", "C", "D", "E", "F", "G", "H", "I", "J", "K", "L", "M", "N",
     "O", "P", "Q", "R", "S", "T", "U", "V", "W", "X", "Y", "Z",
     "0", "1", "2", "3", "4", "5", "6", "7", "8", "9"}

\* c if c.isalnum() or c in (' ', '-', '_') else '_'
SafeChar(c) == IF c \in AlnumChars \cup {" ", "-", "_"} THEN c ELSE "_"

\* "".join(... for c in topic)
RECURSIVE SafeChars(_)
SafeChars(str) ==
    IF Len(str) = 0 THEN ""
    ELSE SafeChar(SubSeq(str, 1, 1)) \o SafeChars(SubSeq(str, 2, Len(str)))

\* str[:n]
Prefix(str, n) == IF Len(str) <= n THEN str ELSE SubSeq(str, 1, n)

\* str.strip(): after SafeChars the only whitespace left is the space
RECURSIVE Strip(_)
Strip(str) ==
    IF Len(str) = 0 THEN ""
    ELSE IF SubSeq(str, 1, 1) = " " THEN Strip(SubSeq(str, 2, Len(str)))
    ELSE IF SubSeq(str, Len(str), Len(str)) = " "
         THEN Strip(SubSeq(str, 1, Len(str) - 1))
    ELSE str

\* safe_topic = "".join(...)[:30].strip()
SafeTopic(t) == Strip(Prefix(SafeChars(t), 30))

\* variant: the file name is stamped with the time of the save
FileStampAtSave == now

\* the timestamp in the name of a file: the one taken at entry
FileStamp == timestamp

\* f"{safe_topic}_{timestamp}_slide{slide_num}.png"
NamedFile(n) == << safe_topic, FileStamp >> \o Filename(n)

\* Entry of the batch up to the submit: the topic is read, the timestamp is
\* taken from the clock and the topic is made safe for a file name.
EnterBatch ==
    /\ phase = "naming"
    /\ \E p \in Plans, t \in Topics :
         /\ slides' = p
         /\ topic' = t
         /\ safe_topic' = SafeTopic(t)
    /\ timestamp' = now
    /\ pos' = 1
    /\ generated_images' = << >>
    /\ phase' = "naming-save"
    /\ UNCHANGED now
    /\ UNCHANGED << batch, gemini_client, fal_client, provider, max_workers,
                    base_seed, wpc, attempt, ret, outcome, calls, provCalls,
                    sleeps, seedsPassed, seedDraws, results, writes,
                    overtaken >>
    /\ UNCHANGED postVars
    /\ UNCHANGED promptVars
    /\ UNCHANGED clientVars
    /\ UNCHANGED << request, response, delays >>

\* a second goes by
Tick ==
    /\ phase \in {"naming", "naming-save"}
    /\ now < MaxClock
    /\ now' = now + 1
    /\ UNCHANGED << topic, timestamp, safe_topic >>
    /\ UNCHANGED batchVars
    /\ UNCHANGED postVars
    /\ UNCHANGED promptVars
    /\ UNCHANGED clientVars
    /\ UNCHANGED << request, response, delays >>

\* One iteration of the save loop as far as names go: the file of a slide
\* that has an image is named, written and its path appended.
SaveNamed ==
    /\ phase = "naming-save"
    /\ pos <= Len(slides)
    /\ \E present \in BOOLEAN :
         generated_images' =
             IF present
             THEN Append(generated_images, NamedFile(slides[pos]))
             ELSE generated_images
    /\ pos' = pos + 1
    /\ UNCHANGED << phase, batch, gemini_client, fal_client, slides, provider,
                    max_workers, base_seed, wpc, attempt, ret, outcome,
                    calls, provCalls, sleeps, seedsPassed, seedDraws,
                    results, writes, overtaken >>
    /\ UNCHANGED postVars
    /\ UNCHANGED promptVars
    /\ UNCHANGED clientVars
    /\ UNCHANGED namingVars
    /\ UNCHANGED << request, response, delays >>

\* the batch returns its paths
ReturnNamed ==
    /\ phase = "naming-save"
    /\ pos > Len(slides)
    /\ phase' = "naming"
    /\ UNCHANGED << batch, gemini_client, fal_client, slides, provider,
                    max_workers, base_seed, wpc, attempt, ret, outcome,
                    calls, provCalls, sleeps, seedsPassed, seedDraws,
                    results, writes, pos, generated_images, overtaken >>
    /\ UNCHANGED postVars
    /\ UNCHANGED promptVars
    /\ UNCHANGED clientVars
    /\ UNCHANGED namingVars
    /\ UNCHANGED << request, response, delays >>

InitNaming ==
    /\ BatchAtRest("naming")
    /\ ServiceIdle

NextNaming ==
    \/ EnterBatch
    \/ Tick
    \/ SaveNamed
    \/ ReturnNamed

SpecNaming == InitNaming /\ [][NextNaming]_vars

\* ===================================================================
\* Properties
\* ===================================================================

\* the batch got past the pool: the save loop runs or is over
PastPool == phase \in {"assemble", "done"}

\* the slide numbers of the plan are pairwise distinct
DistinctNumbers ==
    \A i, j \in Tasks : slides[i] = slides[j] => i = j

\* what the save loop reads for each position of the plan
Assembled == [i \in Tasks |-> ResultsGet(slides[i])]

\* C1: with max_workers = k >= 1, never more than k invocations of
\* generate_story_image are in flight, however many slides the plan has.
C1_ConcurrencyBound ==
    max_workers >= 1 => Cardinality(InFlight) <= max_workers

\* C1 witness: the pool is saturated while a slide is still waiting
C1_Witness ==
    /\ phase = "collect"
    /\ Len(slides) > max_workers
    /\ Cardinality(InFlight) = max_workers
    /\ \E i \in Tasks : wpc[i] = "queued"

\* C2: every submitted task ends up with exactly one recorded result under
\* its slide number before the save loop starts, and the save loop does
\* start: no task is dropped and none is recorded twice.
C2_EveryTaskOneResult ==
    /\ [](\A i \in Tasks : writes[i] <= 1)
    /\ [](PastPool => \A i \in Tasks :
               writes[i] = 1 /\ slides[i] \in DOMAIN results)
    /\ [](PastPool /\ DistinctNumbers =>
               \A i \in Tasks : results[slides[i]] = ret[i])
    /\ ((phase = "collect") ~> (phase = "assemble"))

\* C2 witness: the save loop starts after two tasks were recorded, one with
\* an image and one with a failure
C2_Witness ==
    /\ phase = "assemble"
    /\ pos = 1
    /\ Len(slides) >= 2
    /\ \A i \in Tasks : writes[i] = 1
    /\ \E i, j \in Tasks : Present(ret[i]) /\ ~Present(ret[j])

\* C3: for a plan numbered 1..N the assembled output has N entries, entry i
\* is what slide i produced (its image, or absent when it failed), whatever
\* the order the futures were collected in.
C3_AssembledInSlideOrder ==
    (PastPool /\ IsValidPlan(slides)) =>
        /\ DOMAIN Assembled = 1..Len(slides)
        /\ \A i \in Tasks :
             /\ Assembled[i] = ret[i]
             /\ Present(Assembled[i]) => Assembled[i].slide = i

\* C3 witness: futures were collected out of slide order, and a failed slide
\* sits before a successful one
C3_Witness ==
    /\ PastPool
    /\ IsValidPlan(slides)
    /\ overtaken
    /\ Len(slides) >= 2
    /\ ~Present(Assembled[1])
    /\ Present(Assembled[2])

\* the slide numbers of the plan whose result is an image, in plan order
SavedNumbers == SelectSeq(slides, LAMBDA n : Present(ResultsGet(n)))

\* C4: the returned path list follows the plan order, each file carries the
\* number of its own slide, failed slides are left out without renumbering
\* the later ones, and N successes of a plan 1..N give slide1..slideN.
C4_PathsInSlideOrder ==
    phase = "done" =>
        /\ Len(generated_images) = Len(SavedNumbers)
        /\ \A r \in 1..Len(generated_images) :
             generated_images[r] = << "slide", SavedNumbers[r] >>
        /\ (IsValidPlan(slides) /\ \A i \in Tasks : Present(ret[i])) =>
               generated_images = [i \in Tasks |-> << "slide", i >>]
        /\ (DistinctNumbers /\ \A i \in Tasks : ~Present(ret[i])) =>
               generated_images = << >>

\* C4 witness: a failed slide is followed by a saved one, collected out of
\* order
C4_Witness ==
    /\ phase = "done"
    /\ IsValidPlan(slides)
    /\ Len(slides) >= 2
    /\ overtaken
    /\ ~Present(ret[1])
    /\ generated_images = << << "slide", 2 >> >>

\* C5: a slide whose provider always answers RateLimited has the provider
\* called RETRY_MAX_ATTEMPTS = 3 times, never more, and is then failed.
C5_RateLimitedCalledThrice ==
    \A i \in Tasks :
        /\ provCalls[i] <= RETRY_MAX_ATTEMPTS
        /\ (wpc[i] = "returned" /\ outcome[i] = "RateLimited") =>
               (provCalls[i] = RETRY_MAX_ATTEMPTS /\ ~Present(ret[i]))

\* provider failures that are not rate limits
NonRetryOutcomes == {"Rejected", "Transport"}

\* C6: a task whose provider call ends Rejected or Transport has called the
\* provider exactly once, has returned with no image and runs no further.
C6_NonRateLimitNotRetried ==
    \A i \in Tasks :
        outcome[i] \in NonRetryOutcomes =>
            /\ wpc[i] = "returned"
            /\ provCalls[i] = 1
            /\ calls[i] = attempt[i] + 1
            /\ ~Present(ret[i])

\* C6 witness: a task came back from a Rejected provider call
C6_Witness ==
    \E i \in Tasks :
        /\ outcome[i] = "Rejected"
        /\ wpc[i] = "returned"
        /\ provCalls[i] = 1

\* the set of elements of a sequence
Range(q) == { q[r] : r \in 1..Len(q) }

\* C7: failed slides never abort the batch: the call raises only before any
\* task ran, and when it returns exactly the slides that produced an image
\* are in the path list (N-1 files when one slide of N fails), the failed
\* ones missing under their own number.
C7_PartialFailureIndependence ==
    /\ phase = "raised" => \A i \in Tasks : wpc[i] = "new"
    /\ (phase = "done" /\ DistinctNumbers) =>
          /\ \A i \in Tasks :
               Present(ret[i]) <=> << "slide", slides[i] >> \in Range(generated_images)
          /\ Len(generated_images) =
               Cardinality({ i \in Tasks : Present(ret[i]) })

\* C7 witness: the batch returned with one failed slide among several
C7_Witness ==
    /\ phase = "done"
    /\ Len(slides) >= 2
    /\ IsValidPlan(slides)
    /\ Cardinality({ i \in Tasks : ~Present(ret[i]) }) = 1
    /\ Len(generated_images) = Len(slides) - 1

\* C8: with no client for the selected provider the batch fails as a whole
\* before any task is scheduled; no per-slide failure is recorded.
C8_UnconfiguredFailsBatch ==
    (batch >= 1 /\ ~ClientConfigured) =>
        /\ phase = "raised"
        /\ DOMAIN results = {}
        /\ \A i \in Tasks : wpc[i] = "new"

\* C9: a plan that is empty or not numbered 1..N in position order is
\* answered with an error before any generation.
C9_InvalidPlanRejected ==
    (batch >= 1 /\ ~IsValidPlan(slides)) =>
        /\ phase = "raised"
        /\ \A i \in Tasks : wpc[i] = "new" /\ calls[i] = 0

\* C10: a fal batch draws its seed once when it is called, the seed stays
\* what it is until the next call, and every provider call of the batch is
\* handed that seed.
C10_SeedSharedInBatch ==
    [][ /\ (batch' = batch) => (base_seed' = base_seed /\ seedDraws' = seedDraws)
        /\ (batch' # batch /\ provider' = "fal") =>
               (seedDraws' = 1 /\ base_seed' \in SeedLo..SeedHi)
        /\ (provider' = "fal" /\ batch' = batch
              /\ \E i \in Tasks : provCalls'[i] = provCalls[i] + 1) =>
               (seedsPassed' = {base_seed} /\ base_seed # NoSeed)
        /\ (provider' = "fal") => seedsPassed' \subseteq {base_seed'}
      ]_vars

\* C10 witness: in a second batch two tasks have called fal with the seed
C10_Witness ==
    /\ batch = 2
    /\ provider = "fal"
    /\ seedDraws = 1
    /\ seedsPassed = {base_seed}
    /\ Cardinality({ i \in Tasks : provCalls[i] = 1 }) >= 2

\* C11: the batch has a seed, an integer of 1..2147483647, exactly when the
\* provider is fal; under any other provider the seed is None, the adapter
\* is handed none and no provider call carries one.
C11_SeedIffFal ==
    batch >= 1 =>
        /\ (provider = "fal") <=> (base_seed \in SeedLo..SeedHi)
        /\ (provider # "fal") =>
               (base_seed = NoSeed /\ SeedArg = NoSeed /\ seedsPassed = {})

\* C11 witness: under gemini-pro two provider calls were made, none with a
\* seed
C11_Witness ==
    /\ provider = "gemini-pro"
    /\ base_seed = NoSeed
    /\ seedsPassed = {}
    /\ Cardinality({ i \in Tasks : provCalls[i] = 1 }) >= 2

\* C12: a task whose provider answered RateLimited on fewer than
\* RETRY_MAX_ATTEMPTS invocations is not over: it goes on to the next
\* attempt (so that m failures followed by a success give an image after
\* m + 1 invocations), while a task whose provider answered Rejected was
\* invoked once and has no image.
C12_RateLimitedThenSuccess ==
    \A i \in Tasks :
        /\ (outcome[i] = "RateLimited" /\ provCalls[i] < RETRY_MAX_ATTEMPTS) =>
               wpc[i] \in {"sleeping", "incall"}
        /\ (outcome[i] = "Rejected") =>
               (provCalls[i] = 1 /\ ~Present(ret[i]))

\* C13: a worker sleeping in backoff holds its own pool thread only: while
\* it sleeps, the next queued task is started as soon as fewer than
\* max_workers threads are busy, a running invocation of another task comes
\* back, and a returned task is collected.
C13_SleepDoesNotBlock ==
    [](\A s \in Tasks :
        wpc[s] = "sleeping" =>
            \A j \in Tasks \ {s} :
                /\ (IsNextQueued(j) /\ Cardinality(Busy) < max_workers) =>
                       ENABLED StartTask(j)
                /\ (wpc[j] = "incall") => ENABLED CallReturns(j)
                /\ (wpc[j] = "returned") => ENABLED Collect(j))

\* C13 witness: one task sleeps in backoff while a later one is inside its
\* provider call
C13_Witness ==
    \E s, j \in Tasks :
        /\ s < j
        /\ wpc[s] = "sleeping"
        /\ wpc[j] = "incall"
        /\ max_workers >= 2

\* C14: a provider call that comes back without image data is not retried:
\* the provider was invoked exactly once and the task has returned with no
\* image, which is what is recorded for its slide.
C14_EmptyNotRetried ==
    \A i \in Tasks :
        outcome[i] = "Empty" =>
            /\ wpc[i] = "returned"
            /\ provCalls[i] = 1
            /\ calls[i] = attempt[i] + 1
            /\ ~Present(ret[i])

\* C14 witness: a task came back from an Empty provider answer
C14_Witness ==
    \E i \in Tasks :
        /\ outcome[i] = "Empty"
        /\ wpc[i] = "returned"
        /\ provCalls[i] = 1
        /\ ret[i] = NoImage

\* the calls the save loop made for position p of the plan, in order
OpsAt(p) ==
    LET es == SelectSeq(postlog, LAMBDA e : e.at = p)
    IN  [k \in 1..Len(es) |-> es[k].op]

\* C15: the save loop post-processes exactly the slides that have an image,
\* slide after slide, each one by the text overlay (when use_text_overlay),
\* then the brand watermark, then the file write; a failed slide sees none
\* of the three and gets no file.
C15_PostProcessingOrder ==
    phase = "assemble" =>
        /\ \A p \in Tasks :
             OpsAt(p) =
               IF p < pos /\ Present(ResultsGet(slides[p]))
               THEN IF use_text_overlay
                    THEN << "overlay", "watermark", "save" >>
                    ELSE << "watermark", "save" >>
               ELSE << >>
        /\ \A k \in 1..Len(postlog) :
             /\ postlog[k].at \in Tasks
             /\ Present(ResultsGet(postlog[k].slide))
             /\ k > 1 => postlog[k - 1].at <= postlog[k].at
        /\ Len(generated_images) =
             Cardinality({ k \in 1..Len(postlog) : postlog[k].op = "save" })

\* C15 witness: the loop is over, with the overlay on, after a failed slide
\* was skipped and a later one went through the three steps
C15_Witness ==
    /\ phase = "assemble"
    /\ pos > Len(slides)
    /\ use_text_overlay
    /\ Len(slides) >= 2
    /\ ~Present(ResultsGet(slides[1]))
    /\ OpsAt(1) = << >>
    /\ OpsAt(2) = << "overlay", "watermark", "save" >>

\* C16: with text_overlay = True the overlay is drawn on every saved slide
\* that has a title or a key fact, whatever TEXT_OVERLAY_ENABLED is; with
\* text_overlay = None the batch follows TEXT_OVERLAY_ENABLED.
C16_TextOverlayArgument ==
    phase = "assemble" =>
        /\ (text_overlay = "None") =>
               (use_text_overlay = TEXT_OVERLAY_ENABLED)
        /\ (text_overlay = "True") =>
               /\ use_text_overlay
               /\ \A k \in 1..Len(postlog) :
                    (postlog[k].op = "overlay" /\ postlog[k].text) =>
                        postlog[k].effect = "drawn"

\* C17: when brand_id names no stored brand, or no brand is stored, every
\* image leaves the watermark step unchanged: no brand's mark is drawn.
C17_AbsentBrandIsNoOp ==
    (/\ phase = "assemble"
     /\ \/ brand_id # "None" /\ brand_id \notin Range(brands)
        \/ brands = << >>) =>
        \A k \in 1..Len(postlog) :
            postlog[k].op = "watermark" =>
                postlog[k].effect = "unchanged"

\* the line a character entry contributes to the consistency section
CharacterLine(c) == << "CHARACTER", c.name, c.description >>

\* the line a recurring-object entry contributes to the consistency section
ObjectLine(o) == << "RECURRING ELEMENT", o.name, o.description >>

\* C18: the prompt composed for slide n holds the line of a character or
\* recurring-object entry exactly when n is in the entry's
\* appears_in_slides; without consistency data the section is empty, and a
\* prompt with its text instructions is produced all the same.
C18_ConsistencyEntriesBySlide ==
    prompt # NoPrompt =>
        /\ \A k \in 1..Len(consistency_data.characters) :
             LET c == consistency_data.characters[k]
             IN  (CharacterLine(c) \in Range(prompt.consistency))
                   <=> (prompt.slide \in c.appears_in_slides)
        /\ \A k \in 1..Len(consistency_data.objects) :
             LET o == consistency_data.objects[k]
             IN  (ObjectLine(o) \in Range(prompt.consistency))
                   <=> (prompt.slide \in o.appears_in_slides)
        /\ ~consistency_data.given => prompt.consistency = << >>
        /\ prompt.text.family # ""

\* C18 witness: the prompt of slide 2 leaves out a character listed for
\* slide 1 only and holds an object listed for slide 2
C18_Witness ==
    /\ prompt.slide = 2
    /\ consistency_data.given
    /\ consistency_data.characters[1].appears_in_slides = {1}
    /\ 2 \in consistency_data.objects[1].appears_in_slides
    /\ CharacterLine(consistency_data.characters[1])
           \notin Range(prompt.consistency)
    /\ ObjectLine(consistency_data.objects[1]) \in Range(prompt.consistency)

\* the families that have a keyword contained in the lower-cased art_style
MatchingFamilies(aes) ==
    { f \in 1..Len(StyleFamilies) : MatchesFamily(Lower(aes.art_style), f) }

\* the first of them in the order of the table
FirstMatching(aes) ==
    CHOOSE f \in MatchingFamilies(aes) :
        \A g \in MatchingFamilies(aes) : f <= g

\* C19 as stated: the text instructions are those of the first family of
\* the table with a keyword contained in the lower-cased art_style, and the
\* Professional set when no family matches.
C19_FirstFamilyElseProfessional ==
    prompt # NoPrompt =>
        prompt.text.family =
            IF MatchingFamilies(aesthetic) # {}
            THEN StyleFamilies[FirstMatching(aesthetic)].family
            ELSE "Professional"

\* C19 amended: the text instructions are those of the first family of the
\* table with a keyword contained in the lower-cased art_style; when no
\* family matches they are the Custom set built from typography_style if
\* the aesthetic has one, and the Professional set otherwise.
C19_FirstFamilyElseCustomOrProfessional ==
    prompt # NoPrompt =>
        prompt.text.family =
            IF MatchingFamilies(aesthetic) # {}
            THEN StyleFamilies[FirstMatching(aesthetic)].family
            ELSE IF aesthetic.typography_style # ""
            THEN "Custom"
            ELSE "Professional"

\* C19 witness: "Comic Anime" has keywords of two families once lower-cased
\* and the earlier one of the table, Anime/Manga, is selected
C19_Witness ==
    /\ aesthetic.art_style = "Comic Anime"
    /\ Cardinality(MatchingFamilies(aesthetic)) = 2
    /\ prompt.text.family = "Anime/Manga"

\* C20: no step of a batch changes the plan's slides or aesthetic, the
\* consistency data or the shared seed: from the call to the return, and
\* until the next call, they are what they were at entry.
C20_SharedInputsUnmodified ==
    [][ (batch' = batch) =>
            /\ slides' = slides
            /\ aesthetic' = aesthetic
            /\ consistency_data' = consistency_data
            /\ base_seed' = base_seed
      ]_vars

\* C20 witness: a fal batch with consistency data has returned after a
\* slide failed and another was post-processed and saved
C20_Witness ==
    /\ phase = "done"
    /\ provider = "fal"
    /\ base_seed # NoSeed
    /\ aesthetic \in BatchAesthetics
    /\ consistency_data \in BatchConsistency
    /\ Len(slides) >= 2
    /\ Len(generated_images) = 1

\* C21: every POST /generate_from_plan whose plan has a topic runs the
\* parallel pipeline and is answered with the list of URLs, one per saved
\* file, and not with an error; a plan that is empty or has no topic is
\* answered 400 before anything is generated.
C21_TopicPlanAnsweredWithUrls ==
    (~request.none /\ response # NoResponse) =>
        IF request.plan.keys = {} \/ "topic" \notin request.plan.keys
        THEN response.status = 400 /\ ~response.generated
        ELSE /\ response.status = 200
             /\ response.generated
             /\ \A k \in 1..Len(response.images) :
                    response.images[k][1] = "url"

\* C22: after services.clients.gemini_client was replaced (init_clients,
\* POST /reload_clients), every later image generation call of
\* services.image works with the new handle and not with the value it saw
\* when it was imported.
C22_ImageSeesReplacedClient ==
    (handle_used.module = "image" /\ handle_used.fn = "_generate_with_gemini")
        => /\ handle_used.handle = handle_used.current
           /\ (handle_used.result = "not initialized")
                 <=> (handle_used.current = 0)

\* C23: after the replacement every later text generation call of
\* services.llm (_generate_with_gemini, generate_text) works with the new
\* handle: it calls the client that is installed when it is called and
\* reports a missing client only if none is installed then.
C23_LlmSeesReplacedClient ==
    handle_used.module = "llm" =>
        /\ handle_used.result = "called" =>
              (handle_used.handle = handle_used.current
               /\ handle_used.current # 0)
        /\ handle_used.result \in {"not available", "no provider"} =>
              handle_used.current = 0
        /\ (handle_used.fn = "_generate_with_gemini"
            /\ handle_used.current = 0) =>
              handle_used.result = "not available"

\* C23 witness: a client was installed after services.llm was imported
\* without one, and a text generation call used it
C23_Witness ==
    /\ handle_used.module = "llm"
    /\ handle_used.result = "called"
    /\ reloads >= 2
    /\ image_gemini = 0
    /\ handle_used.handle = clients_gemini
    /\ clients_gemini >= 2

\* C24: the backoff sleep after the rate-limited attempt with 0-based index
\* a is RETRY_BASE_DELAY^a = 2^a seconds (1, 2, 4) plus a jitter between 0
\* and 1 second: the deterministic part strictly increases from one attempt
\* of a task to the next.
C24_BackoffGrows ==
    /\ Len(delays) <= 3
    /\ \A k \in 1..Len(delays) :
         /\ delays[k].attempt = k - 1
         /\ delays[k].base = << 1000, 2000, 4000 >>[k]
         /\ delays[k].jitter >= 0
         /\ delays[k].jitter <= 1000
         /\ delays[k].delay = delays[k].base + delays[k].jitter
         /\ k > 1 => delays[k - 1].base < delays[k].base

\* C24 witness: a task backed off three times, the first time with the
\* largest jitter and the second time with none
C24_Witness ==
    /\ Len(delays) = 3
    /\ delays[1].jitter = 1000
    /\ delays[2].jitter = 0
    /\ delays[1].delay = delays[2].delay
    /\ delays[3].base = 4000

\* the save entries of the log, in the order they were made
Saves == SelectSeq(postlog, LAMBDA e : e.op = "save")

\* C25: no post-processing step and no file write happens until every task
\* of the batch has completed: the pool is fully joined before the results
\* are walked in slide order, and they are walked once (every position of
\* the plan is visited at most once, in plan order).
C25_JoinBeforePostProcessing ==
    /\ (\E i \in Tasks : wpc[i] \in {"queued", "incall", "sleeping",
                                      "returned"}) =>
          /\ phase \notin {"assemble", "done"}
          /\ pos = 0
          /\ postlog = << >>
          /\ generated_images = << >>
    /\ phase = "assemble" =>
          /\ \A i \in Tasks : wpc[i] = "collected" /\ writes[i] = 1
          /\ pos \in 1..(Len(slides) + 1)
          /\ \A k \in 1..Len(postlog) : postlog[k].at < pos
          /\ \A k \in 1..Len(Saves) :
                k > 1 => Saves[k - 1].at < Saves[k].at

\* C25 witness: the futures completed out of slide order, the pool was
\* joined and the save loop has saved both slides
C25_Witness ==
    /\ phase = "assemble"
    /\ overtaken
    /\ Len(slides) = 2
    /\ pos = 3
    /\ Len(Saves) = 2
    /\ Saves[1].at = 1
    /\ Saves[2].at = 2

\* how an invocation ends when the provider or the call is rate limited
RateLimitOutcomes == {"RateLimited", "RaiseRate"}

\* C26: in the worker every rate-limited failure is followed by exactly one
\* backoff sleep, the failure of the last allowed attempt included: a task
\* that used up its retries has made 3 provider calls and 3 sleeps before it
\* is reported failed, and a task never sleeps after a success or after a
\* failure that is not a rate limit.
C26_OneSleepPerRateLimitedFailure ==
    \A i \in Tasks :
        /\ outcome[i] \in RateLimitOutcomes =>
              /\ sleeps[i] >= 1
              /\ sleeps[i] = IF wpc[i] = "sleeping" THEN attempt[i] + 1
                             ELSE attempt[i]
        /\ (wpc[i] = "returned" /\ attempt[i] = RETRY_MAX_ATTEMPTS) =>
              /\ provCalls[i] = RETRY_MAX_ATTEMPTS
              /\ sleeps[i] = RETRY_MAX_ATTEMPTS
              /\ ~Present(ret[i])
        /\ outcome[i] \in (ProviderOutcomes \cup Escapes \cup {"NoClient"})
                           \ RateLimitOutcomes =>
              /\ wpc[i] = "returned"
              /\ sleeps[i] = attempt[i]

\* the worker of task i takes a step: it starts, or an invocation ends, or
\* its sleep ends
WorkerStepOf(i) ==
    /\ batch' = batch
    /\ wpc[i] \in {"queued", "incall", "sleeping"}
    /\ wpc'[i] # wpc[i]

\* the collecting thread takes the future of task i from as_completed
CollectStepOf(i) ==
    /\ batch' = batch
    /\ wpc[i] = "returned"
    /\ wpc'[i] = "collected"

\* C27: the workers never write shared state: a worker's step changes what
\* belongs to its own task and nothing else, and the results map is written
\* only by the collecting thread as it takes a future from as_completed, one
\* key for one future.
C27_OnlyCollectorWritesResults ==
    [][ /\ \A i \in Tasks :
             WorkerStepOf(i) =>
                 /\ results' = results
                 /\ writes' = writes
                 /\ generated_images' = generated_images
                 /\ pos' = pos
                 /\ phase' = phase
                 /\ postlog' = postlog
                 /\ slides' = slides
                 /\ \A j \in Tasks \ {i} :
                        /\ wpc'[j] = wpc[j]
                        /\ ret'[j] = ret[j]
                        /\ attempt'[j] = attempt[j]
        /\ (results' # results /\ batch' = batch) =>
             \E i \in Tasks :
                 /\ CollectStepOf(i)
                 /\ writes' = [writes EXCEPT ![i] = @ + 1]
                 /\ DOMAIN results' = DOMAIN results \cup {slides[i]}
                 /\ \A n \in DOMAIN results \ {slides[i]} :
                        results'[n] = results[n]
      ]_vars

\* C27 witness: the collecting thread has stored the result of the second
\* slide while the worker of the first one is still running
C27_Witness ==
    /\ phase = "collect"
    /\ Len(slides) = 2
    /\ wpc = << "incall", "collected" >>
    /\ DOMAIN results = {2}
    /\ Present(results[2])
    /\ writes = << 0, 1 >>

\* C28: if the future of a worker raises, the collecting loop records an
\* absent image under the slide number the future was submitted for and
\* goes on: the exception does not leave the loop and what was and will be
\* recorded for the other slides is not affected.
C28_RaisedFutureRecordedAbsent ==
    [][ \A i \in Tasks :
          (CollectStepOf(i) /\ outcome[i] = "WorkerRaised") =>
              /\ phase' = "collect"
              /\ slides[i] \in DOMAIN results'
              /\ results'[slides[i]] = NoImage
              /\ writes'[i] = 1
              /\ \A n \in DOMAIN results \ {slides[i]} :
                     n \in DOMAIN results' /\ results'[n] = results[n]
              /\ \A j \in Tasks \ {i} :
                     wpc'[j] = wpc[j] /\ ret'[j] = ret[j]
      ]_vars

\* C28 witness: the future of the first slide raised, the loop recorded no
\* image for it and went on to collect the image of the second slide
C28_Witness ==
    /\ phase = "collect"
    /\ slides = << 1, 2 >>
    /\ wpc = << "collected", "collected" >>
    /\ outcome[1] = "WorkerRaised"
    /\ ~overtaken
    /\ 1 \in DOMAIN results
    /\ results[1] = NoImage
    /\ Present(results[2])

\* C29: the sanitized topic and the timestamp are computed once, before
\* generation: all files of a batch share the prefix made of them and
\* differ only in the slide number, so that for distinct slide numbers no
\* file of a batch overwrites another file of the same batch.
C29_SharedPrefixDistinctFiles ==
    phase = "naming-save" =>
        /\ timestamp <= now
        /\ Len(safe_topic) <= 30
        /\ \A c \in 1..Len(safe_topic) :
              SubSeq(safe_topic, c, c) \in AlnumChars \cup {" ", "-", "_"}
        /\ \A k \in 1..Len(generated_images) :
              /\ generated_images[k][1] = safe_topic
              /\ generated_images[k][2] = timestamp
              /\ generated_images[k][3] = "slide"
              /\ \E i \in 1..(pos - 1) : generated_images[k][4] = slides[i]
        /\ \A k, l \in 1..Len(generated_images) :
              generated_images[k][4] # generated_images[l][4] =>
                  generated_images[k] # generated_images[l]
        /\ DistinctNumbers =>
              \A k, l \in 1..Len(generated_images) :
                  generated_images[k] = generated_images[l] => k = l

\* C29 witness: time went by between the entry of a batch whose topic had
\* to be cut and stripped and the save of its second file
C29_Witness ==
    /\ phase = "naming-save"
    /\ topic = "The history of the roman army and navy"
    /\ safe_topic = "The history of the roman army"
    /\ slides = << 1, 2 >>
    /\ timestamp < now
    /\ generated_images =
         << << safe_topic, timestamp, "slide", 1 >>,
            << safe_topic, timestamp, "slide", 2 >> >>

\* C30: for the same plan and the same outcome of every slide (an image, or
\* a failure that is not a rate limit), the parallel batch saves the slides
\* and returns the paths the sequential generate_story_from_plan does, in the
\* same order, for every max_workers >= 1 and every completion order.
C30_ParallelEqualsSequential ==
    phase = "done" =>
        generated_images =
            generate_story_from_plan(slides,
                                     [i \in Tasks |-> Present(ret[i])])

====
